---- MODULE Spec2Model ----
(***************************************************************************)
(* A model of pybullet_helpers.robots.single_arm.SingleArmPyBulletRobot    *)
(* (and its Panda subclass): the arm chain built from the joint graph, the *)
(* joint-state operations on the physics engine, and inverse-kinematics    *)
(* resolution with finger insertion and forward-kinematics validation.     *)
(*                                                                         *)
(* Joint values, positions and tolerances are fixed-point integers in      *)
(* units of 1e-6 (so 1e-3 is 1000 and 0.04 is 40000).  Python's 0-based    *)
(* list indices are kept 0-based (left_finger_joint_idx, insert); TLA+     *)
(* sequences are 1-based, so slot k is element k+1.                        *)
(***************************************************************************)
EXTENDS Integers, Sequences, FiniteSets, TLC

VARIABLES
    robot,                  \* the robot type's descriptor and the loaded joint graph
    control_mode,           \* self._control_mode
    _home_joint_positions,  \* self._home_joint_positions
    arm_joints_cache,       \* the cached_property arm_joints; <<>> before first access
    jointPos,               \* engine: position of every joint of the body
    jointVel,               \* engine: velocity of every joint of the body
    trace,                  \* the calls made by the last operation, in order
    lastCall                \* the last operation: its arguments and its outcome

vars == <<robot, control_mode, _home_joint_positions, arm_joints_cache,
          jointPos, jointVel, trace, lastCall>>

(***************************************************************************)
(* Bounds and program constants                                            *)
(***************************************************************************)
\* Joints of a generated robot body (joint ids 0 .. NumJoints-1).
NumJoints == 4

\* Longest candidate list the analytic solver returns.
MaxSolutions == 2

BASE_LINK == -1

\* PandaPyBulletRobot.open_fingers / closed_fingers (0.04, 0.03).
OpenFingers == 40000
ClosedFingers == 30000

\* inverse_kinematics' default validation_atol (1e-3).
DefaultAtol == 1000

\* np.allclose's default rtol is 1e-5: rtol * |b| is |b| / RtolInv.
RtolInv == 100000

(***************************************************************************)
(* Python list helpers                                                     *)
(***************************************************************************)
Range(s) == {s[i] : i \in DOMAIN s}

\* list.index(x), 0-based: the first position holding x.
index(s, x) == (CHOOSE i \in DOMAIN s : s[i] = x /\ \A k \in 1..(i - 1) : s[k] # x) - 1

\* list.insert(i, x), 0-based, i >= 0: x goes before the element at i, or at
\* the end when i >= len.
insert(s, i, x) ==
    LET k == IF i > Len(s) THEN Len(s) ELSE i
    IN  SubSeq(s, 1, k) \o <<x>> \o SubSeq(s, k + 1, Len(s))

RECURSIVE InsertSorted(_, _)
InsertSorted(s, x) ==
    IF s = <<>> THEN <<x>>
    ELSE IF x <= Head(s) THEN <<x>> \o s
    ELSE <<Head(s)>> \o InsertSorted(Tail(s), x)

\* sorted(list): ascending, duplicates kept.
RECURSIVE sorted(_)
sorted(s) == IF s = <<>> THEN <<>> ELSE InsertSorted(sorted(Tail(s)), Head(s))

Abs(x) == IF x < 0 THEN -x ELSE x

(***************************************************************************)
(* The arm chain                                                           *)
(***************************************************************************)
\* get_kinematic_chain(robot_id, end_effector_id): walk from the end-effector
\* joint to the base over parent links, collecting the joints visited.
RECURSIVE get_kinematic_chain(_, _)
get_kinematic_chain(parent, joint) ==
    IF joint = BASE_LINK THEN <<>>
    ELSE <<joint>> \o get_kinematic_chain(parent, parent[joint])

\* A plausible slip: the fingers are appended before sorting.
build_arm_joints_sort_all(r) ==
    sorted(get_kinematic_chain(r.parent, r.end_effector_id)
           \o <<r.left_finger_id, r.right_finger_id>>)

\* The body of the property arm_joints, for the robot r.
build_arm_joints(r) ==
    sorted(get_kinematic_chain(r.parent, r.end_effector_id))
    \o <<r.left_finger_id, r.right_finger_id>>

\* The cached property arm_joints: computed on first access, then the cache.
arm_joints ==
    IF arm_joints_cache # <<>> THEN arm_joints_cache ELSE build_arm_joints(robot)

left_finger_joint_idx == index(arm_joints, robot.left_finger_id)

right_finger_joint_idx == index(arm_joints, robot.right_finger_id)

(***************************************************************************)
(* The physics engine, as the robot object sees it                         *)
(***************************************************************************)
\* One entry of the call trace.
Ev(call, joints, vals, flag) ==
    [call |-> call, joints |-> joints, vals |-> vals, flag |-> flag]

Log(e, ev) == [e EXCEPT !.tr = Append(@, ev)]

\* The engine state a call starts from, with an empty call trace.
Engine == [pos |-> jointPos, vel |-> jointVel, tr |-> <<>>]

\* The outcome of a method: the engine afterwards, the exception raised
\* ("none" on normal return), its message, and the value returned.
Res(e, err, msg, ret) == [e |-> e, err |-> err, msg |-> msg, ret |-> ret]

\* p.resetJointState(robot_id, joint_id, targetValue=v, targetVelocity=0).
resetJointState(e, joint_id, joint_val) ==
    Log([e EXCEPT !.pos[joint_id] = joint_val, !.vel[joint_id] = 0],
        Ev("resetJointState", <<joint_id>>, <<joint_val>>, FALSE))

\* get_joint_positions(robot_id, arm_joints): one read per chain entry.
get_joints(e) == [i \in 1..Len(arm_joints) |-> e.pos[arm_joints[i]]]

RECURSIVE SumAlong(_, _)
SumAlong(pos, chain) ==
    IF chain = <<>> THEN 0 ELSE pos[Head(chain)] + SumAlong(pos, Tail(chain))

\* get_link_state(robot_id, end_effector_id): the world pose of the end
\* effector, a function of the joints between it and the base.  x adds the
\* joint values along the chain, y is the end-effector joint's own value, z is
\* the fixed base height; the orientation is the base-most joint's value.
get_link_state(e) ==
    LET chain == get_kinematic_chain(robot.parent, robot.end_effector_id)
    IN  [position |-> <<SumAlong(e.pos, chain), e.pos[robot.end_effector_id], 0>>,
         orientation |-> e.pos[chain[Len(chain)]]]

(***************************************************************************)
(* Joint-state operations                                                  *)
(***************************************************************************)
\* The loop of set_joints: zip(arm_joints, joint_positions) stops at the
\* shorter of the two.
RECURSIVE reset_each(_, _, _)
reset_each(e, joint_ids, joint_vals) ==
    IF joint_ids = <<>> \/ joint_vals = <<>> THEN e
    ELSE reset_each(resetJointState(e, Head(joint_ids), Head(joint_vals)),
                    Tail(joint_ids), Tail(joint_vals))

\* A plausible slip: no length assertion, so a short vector is written as far
\* as it goes.
set_joints_unchecked(e, joint_positions) ==
    Res(reset_each(Log(e, Ev("set_joints", <<>>, joint_positions, FALSE)),
                   arm_joints, joint_positions), "none", "", <<>>)

set_joints(e, joint_positions) ==
    LET e1 == Log(e, Ev("set_joints", <<>>, joint_positions, FALSE))
    IN  IF Len(joint_positions) # Len(arm_joints)
        THEN Res(e1, "AssertionError", "", <<>>)
        ELSE Res(reset_each(e1, arm_joints, joint_positions), "none", "", <<>>)

\* p.setJointMotorControlArray(jointIndices=..., controlMode=POSITION_CONTROL,
\* targetPositions=...): one command, no joint state is written.
setJointMotorControlArray(e, joint_ids, targets) ==
    Log(e, Ev("setJointMotorControlArray", joint_ids, targets, FALSE))

\* A plausible slip: position mode also teleports the joints.
set_motors_teleport(e, joint_positions) ==
    IF Len(joint_positions) # Len(arm_joints)
    THEN Res(e, "AssertionError", "", <<>>)
    ELSE IF control_mode \in {"position", "reset"}
    THEN set_joints(setJointMotorControlArray(e, arm_joints, joint_positions),
                    joint_positions)
    ELSE Res(e, "NotImplementedError", "Unrecognized pybullet_control_mode", <<>>)

set_motors(e, joint_positions) ==
    IF Len(joint_positions) # Len(arm_joints)
    THEN Res(e, "AssertionError", "", <<>>)
    ELSE IF control_mode = "position"
    THEN Res(setJointMotorControlArray(e, arm_joints, joint_positions),
             "none", "", <<>>)
    ELSE IF control_mode = "reset"
    THEN set_joints(e, joint_positions)
    ELSE Res(e, "NotImplementedError", "Unrecognized pybullet_control_mode", <<>>)

\* The property home_joint_positions.
home_joint_positions == _home_joint_positions

go_home(e) == set_motors(e, robot.default_home_joint_positions)

forward_kinematics(e, joint_positions) ==
    LET r == set_joints(e, joint_positions)
    IN  IF r.err # "none" THEN r
        ELSE Res(r.e, "none", "", get_link_state(r.e))

(***************************************************************************)
(* Inverse kinematics                                                      *)
(***************************************************************************)
\* np.allclose(a, b, atol=atol) on 3-vectors: |a - b| <= atol + rtol * |b| on
\* every axis, with numpy's default rtol = 1e-5.  On the integer grid
\* rtol * |b| is |b| / RtolInv, and d <= |b| / RtolInv iff d <= |b| \div RtolInv.
allclose(a, b, atol) ==
    \A i \in 1..3 : Abs(a[i] - b[i]) <= atol + (Abs(b[i]) \div RtolInv)

\* A plausible slip: the joints are not put back when the position is off.
validate_without_restore(e, joint_positions, target_pose, validation_atol) ==
    LET e0 == Log(e, Ev("_validate_joints_state", <<>>, joint_positions, FALSE))
        initial_joint_states == get_joints(e0)
        r1 == set_joints(e0, joint_positions)
        ee_pos == get_link_state(r1.e).position
        pos_is_close == allclose(ee_pos, target_pose.position, validation_atol)
    IN  IF r1.err # "none" THEN r1
        ELSE IF ~pos_is_close
        THEN Res(r1.e, "ValueError", "Joint states do not match target pose", <<>>)
        ELSE Res(set_joints(r1.e, initial_joint_states).e, "none", "", <<>>)

\* A plausible slip: the restore puts the joint velocities back as well as the
\* positions.
validate_restoring_velocities(e, joint_positions, target_pose, validation_atol) ==
    LET e0 == Log(e, Ev("_validate_joints_state", <<>>, joint_positions, FALSE))
        initial_joint_states == get_joints(e0)
        r1 == set_joints(e0, joint_positions)
        ee_pos == get_link_state(r1.e).position
        pos_is_close == allclose(ee_pos, target_pose.position, validation_atol)
        r2 == set_joints(r1.e, initial_joint_states)
        restored == [r2.e EXCEPT !.vel = e.vel]
    IN  IF r1.err # "none" THEN r1
        ELSE IF ~pos_is_close
        THEN Res(restored, "ValueError", "Joint states do not match target pose", <<>>)
        ELSE Res(restored, "none", "", <<>>)

_validate_joints_state(e, joint_positions, target_pose, validation_atol) ==
    LET e0 == Log(e, Ev("_validate_joints_state", <<>>, joint_positions, FALSE))
        initial_joint_states == get_joints(e0)
        r1 == set_joints(e0, joint_positions)
        ee_pos == get_link_state(r1.e).position
        pos_is_close == allclose(ee_pos, target_pose.position, validation_atol)
        r2 == set_joints(r1.e, initial_joint_states)
    IN  IF r1.err # "none" THEN r1
        ELSE IF ~pos_is_close
        THEN Res(r2.e, "ValueError", "Joint states do not match target pose", <<>>)
        ELSE Res(r2.e, "none", "", <<>>)

\* final_joint_state.insert(idx, self.open_fingers), recorded in the trace.
insert_finger(r, idx) ==
    Res(Log(r.e, Ev("insert", <<idx>>, <<robot.open_fingers>>, FALSE)),
        "none", "", insert(r.ret, idx, robot.open_fingers))

\* A plausible slip: the finger joint ids are used where the slots are meant.
ikfast_insert_at_joint_ids(e, ik_solutions) ==
    LET e0 == Log(e, Ev("ikfast_closest_inverse_kinematics", <<>>, <<>>, FALSE))
        slots == sorted(<<robot.left_finger_id, robot.right_finger_id>>)
    IN  IF ik_solutions = <<>>
        THEN Res(e0, "InverseKinematicsError", "No IK solution found", <<>>)
        ELSE insert_finger(insert_finger(Res(e0, "none", "", ik_solutions[1]),
                                         slots[1]), slots[2])

\* A plausible slip: an empty candidate list is not checked, and taking its
\* first element fails.
ikfast_no_empty_check(e, ik_solutions) ==
    LET e0 == Log(e, Ev("ikfast_closest_inverse_kinematics", <<>>, <<>>, FALSE))
        slots == sorted(<<left_finger_joint_idx, right_finger_joint_idx>>)
    IN  IF ik_solutions = <<>>
        THEN Res(e0, "IndexError", "list index out of range", <<>>)
        ELSE insert_finger(insert_finger(Res(e0, "none", "", ik_solutions[1]),
                                         slots[1]), slots[2])

\* ik_solutions is what ikfast_closest_inverse_kinematics returned: arm-only
\* candidates, closest to the current joint state first.
_ikfast_inverse_kinematics(e, ik_solutions) ==
    LET e0 == Log(e, Ev("ikfast_closest_inverse_kinematics", <<>>, <<>>, FALSE))
        slots == sorted(<<left_finger_joint_idx, right_finger_joint_idx>>)
    IN  IF ik_solutions = <<>>
        THEN Res(e0, "InverseKinematicsError", "No IK solution found", <<>>)
        ELSE insert_finger(insert_finger(Res(e0, "none", "", ik_solutions[1]),
                                         slots[1]), slots[2])

\* pybullet_inverse_kinematics(robot_id, end_effector_id, position,
\* orientation, arm_joints, validate=validate): answer is what the generic
\* solver produced, a full chain-ordered vector or its own failure.
pybullet_inverse_kinematics(e, joints, validate, answer) ==
    Res(Log(e, Ev("pybullet_inverse_kinematics", joints, <<>>, validate)),
        answer.err, "", answer.ret)

\* The tail of inverse_kinematics: apply the result when asked to.
ik_finish(r, set_joints_flag) ==
    IF r.err # "none" \/ ~set_joints_flag THEN r
    ELSE LET r3 == set_joints(r.e, r.ret)
         IN  Res(r3.e, r3.err, "", IF r3.err = "none" THEN r.ret ELSE <<>>)

\* A plausible slip: the robot type's analytic profile is ignored.
inverse_kinematics_always_generic(e, end_effector_pose, validate, set_joints_flag, validation_atol, ik_solutions, answer) ==
    ik_finish(pybullet_inverse_kinematics(e, arm_joints, validate, answer),
              set_joints_flag)

inverse_kinematics(e, end_effector_pose, validate, set_joints_flag, validation_atol, ik_solutions, answer) ==
    IF robot.ikfast_info
    THEN LET r1 == _ikfast_inverse_kinematics(e, ik_solutions)
             r2 == _validate_joints_state(r1.e, r1.ret, end_effector_pose,
                                          validation_atol)
         IN  IF r1.err # "none" THEN r1
             ELSE IF ~validate THEN ik_finish(r1, set_joints_flag)
             ELSE IF r2.err = "ValueError"
             THEN Res(r2.e, "InverseKinematicsError", r2.msg, <<>>)
             ELSE IF r2.err # "none" THEN r2
             ELSE ik_finish(Res(r2.e, "none", "", r1.ret), set_joints_flag)
    ELSE ik_finish(pybullet_inverse_kinematics(e, arm_joints, validate, answer),
                   set_joints_flag)

(***************************************************************************)
(* Robots and inputs                                                       *)
(***************************************************************************)
Robot(parent, ee, left, right, ikfast, home) ==
    [parent |-> parent, end_effector_id |-> ee, left_finger_id |-> left,
     right_finger_id |-> right, ikfast_info |-> ikfast,
     default_home_joint_positions |-> home, open_fingers |-> OpenFingers]

\* A Panda-like arm with an analytic profile: joints 0 and 3 carry the end
\* effector (joint 3), the fingers are joints 1 and 2, numbered between them.
\* arm_joints = <<0, 3, 1, 2>>.
PandaRobot ==
    Robot((0 :> BASE_LINK) @@ (1 :> 3) @@ (2 :> 3) @@ (3 :> 0), 3, 1, 2, TRUE,
          <<0, 1005, OpenFingers, OpenFingers>>)

\* A robot type that keeps the base class's ikfast_info() (None).
\* arm_joints = <<0, 1, 2, 3>>.
GenericRobot ==
    Robot((0 :> BASE_LINK) @@ (1 :> 0) @@ (2 :> 1) @@ (3 :> 1), 1, 2, 3, FALSE,
          <<1005, 0, OpenFingers, OpenFingers>>)

\* The constructor argument home_joint_positions: None (<<>>, falsy like an
\* empty list) or a vector of the chain's length.
NoHome == <<>>

CustomHome(r) ==
    [i \in 1..Len(build_arm_joints(r)) |->
        IF i = 1 THEN 1000000
        ELSE IF i > Len(build_arm_joints(r)) - 2 THEN ClosedFingers
        ELSE 0]

\* The robot instances constructed: type, control_mode, home_joint_positions.
\* "velocity" stands for any control mode set_motors does not recognise.
Instances ==
    {<<PandaRobot, "position", NoHome>>,
     <<PandaRobot, "position", CustomHome(PandaRobot)>>,
     <<PandaRobot, "reset", CustomHome(PandaRobot)>>,
     <<PandaRobot, "velocity", NoHome>>,
     <<GenericRobot, "position", CustomHome(GenericRobot)>>,
     <<GenericRobot, "reset", NoHome>>,
     <<GenericRobot, "velocity", NoHome>>}

FingerPairs == {<<OpenFingers, OpenFingers>>, <<ClosedFingers, ClosedFingers>>}

\* Arm-only vectors, one value per chain entry before the two finger entries:
\* the first joint at 1.0, the first at 0.001005 and the last at 1.0, all zero.
ArmVectors ==
    {[i \in 1..(Len(arm_joints) - 2) |-> IF i = 1 THEN 1000000 ELSE 0],
     [i \in 1..(Len(arm_joints) - 2) |->
        IF i = 1 THEN 1005 ELSE IF i = Len(arm_joints) - 2 THEN 1000000 ELSE 0],
     [i \in 1..(Len(arm_joints) - 2) |-> 0]}

\* Chain-ordered joint vectors of the right length.
JointVectors == {a \o f : a \in ArmVectors, f \in FingerPairs}

\* Vectors of a wrong length: too short (down to empty) and too long.
BadVectors ==
    LET base == {[i \in 1..Len(arm_joints) |-> v] : v \in {1005, 1000000}}
    IN  {SubSeq(b, 1, k) : b \in base, k \in {0, 1, Len(arm_joints) - 1}}
        \cup {b \o <<0>> : b \in base}

Pose(position, orientation) == [position |-> position, orientation |-> orientation]

NoPose == Pose(<<0, 0, 0>>, 0)

\* Targets: 0.0005 off the first arm vector's pose on x, with that vector's
\* orientation and with another; and 0.001005 off the second arm vector's pose.
TargetPoses ==
    {Pose(<<1000500, 0, 0>>, 1000000), Pose(<<1000500, 0, 0>>, 0),
     Pose(<<1000000, 1000000, 0>>, 1005)}

Atols == {DefaultAtol}

\* What the analytic solver may return: up to MaxSolutions different arm-only
\* candidates, closest first.
IkfastCandidates == ArmVectors

\* Ranked lists of up to n different elements of S.
SeqsUpTo(S, n) ==
    UNION {{q \in [1..k -> S] : \A i, j \in 1..k : i # j => q[i] # q[j]} :
              k \in 0..n}

IkfastSolutions == SeqsUpTo(IkfastCandidates, MaxSolutions)

\* What the generic solver may answer: a full vector or its own failure.
NoAnswer == [err |-> "InverseKinematicsError", ret |-> <<>>]

GenericAnswers == {NoAnswer} \cup {[err |-> "none", ret |-> v] : v \in JointVectors}

(***************************************************************************)
(* State machine                                                           *)
(***************************************************************************)
Call(op, arg, target, validate, sj, atol, r, ret, pose) ==
    [op |-> op, arg |-> arg, target |-> target, validate |-> validate,
     set_joints |-> sj, atol |-> atol, err |-> r.err, msg |-> r.msg,
     ret |-> ret, pose |-> pose, vel_before |-> jointVel]

\* The state after an operation with outcome r.
Commit(r, call) ==
    /\ jointPos' = r.e.pos
    /\ jointVel' = r.e.vel
    /\ trace' = r.e.tr
    /\ lastCall' = call
    /\ arm_joints_cache' = arm_joints
    /\ UNCHANGED <<robot, control_mode, _home_joint_positions>>

\* __init__: the body is loaded with every joint at rest at zero, then
\* set_joints(home_joint_positions) puts the robot at home.
Init ==
    /\ \E inst \in Instances :
         /\ robot = inst[1]
         /\ control_mode = inst[2]
         /\ _home_joint_positions =
              IF inst[3] # <<>> THEN inst[3] ELSE inst[1].default_home_joint_positions
    /\ arm_joints_cache = build_arm_joints(robot)
    /\ LET loaded == [pos |-> [j \in DOMAIN robot.parent |-> 0],
                      vel |-> [j \in DOMAIN robot.parent |-> 0], tr |-> <<>>]
           r == set_joints(loaded, home_joint_positions)
       IN  /\ r.err = "none"
           /\ jointPos = r.e.pos
           /\ jointVel = r.e.vel
           /\ trace = r.e.tr
           /\ lastCall = Call("__init__", home_joint_positions, NoPose, FALSE,
                              FALSE, 0, r, <<>>, NoPose)

CallSetJoints ==
    \E v \in JointVectors \cup BadVectors :
        LET r == set_joints(Engine, v)
        IN  Commit(r, Call("set_joints", v, NoPose, FALSE, FALSE, 0, r, <<>>, NoPose))

CallSetMotors ==
    \E v \in JointVectors \cup BadVectors :
        LET r == set_motors(Engine, v)
        IN  Commit(r, Call("set_motors", v, NoPose, FALSE, FALSE, 0, r, <<>>, NoPose))

CallGoHome ==
    LET r == go_home(Engine)
    IN  Commit(r, Call("go_home", <<>>, NoPose, FALSE, FALSE, 0, r, <<>>, NoPose))

CallForwardKinematics ==
    \E v \in JointVectors :
        LET r == forward_kinematics(Engine, v)
        IN  Commit(r, Call("forward_kinematics", v, NoPose, FALSE, FALSE, 0, r,
                           <<>>, r.ret))

CallInverseKinematics ==
    \E target \in TargetPoses, validate \in BOOLEAN, sj \in BOOLEAN, atol \in Atols :
      \E ik_solutions \in IF robot.ikfast_info THEN IkfastSolutions ELSE {<<>>} :
        \E answer \in IF robot.ikfast_info THEN {NoAnswer} ELSE GenericAnswers :
          LET r == inverse_kinematics(Engine, target, validate, sj, atol,
                                      ik_solutions, answer)
          IN  Commit(r, Call("inverse_kinematics",
                             IF ik_solutions = <<>> THEN <<>> ELSE ik_solutions[1],
                             target, validate, sj, atol, r, r.ret, NoPose))

\* p.stepSimulation(), called by the robot's user between operations: the
\* engine's dynamics leave the joints moving.
StepSimulation ==
    /\ jointVel' = [j \in DOMAIN jointVel |-> 1]
    /\ trace' = <<>>
    /\ lastCall' = Call("stepSimulation", <<>>, NoPose, FALSE, FALSE, 0,
                        Res(Engine, "none", "", <<>>), <<>>, NoPose)
    /\ UNCHANGED <<robot, control_mode, _home_joint_positions, arm_joints_cache,
                   jointPos>>

Next ==
    \/ CallSetJoints
    \/ CallSetMotors
    \/ CallGoHome
    \/ CallForwardKinematics
    \/ CallInverseKinematics
    \/ StepSimulation

Spec == Init /\ [][Next]_vars

(***************************************************************************)
(* The chain builder and the finger insertion over every joint graph       *)
(***************************************************************************)
Joints == 0..(NumJoints - 1)

RECURSIVE ReachesBase(_, _, _)
ReachesBase(parent, joint, fuel) ==
    \/ joint = BASE_LINK
    \/ fuel > 0 /\ ReachesBase(parent, parent[joint], fuel - 1)

\* Connected joint graphs: every joint's parent links lead to the base.
JointGraphs ==
    {parent \in [Joints -> Joints \cup {BASE_LINK}] :
        \A j \in Joints : ReachesBase(parent, j, NumJoints)}

\* The scenario's body of 13 joints: the end effector (joint 10) hangs on
\* joints 9, 6, 4 and 2, and carries the fingers (joints 11 and 12).
ScenarioRobot ==
    Robot([j \in 0..12 |->
              CASE j = 10 -> 9 [] j = 9 -> 6 [] j = 6 -> 4 [] j = 4 -> 2
                [] j \in {11, 12} -> 10 [] OTHER -> BASE_LINK],
          10, 11, 12, TRUE, <<>>)

\* Every analytic robot over a connected graph, with any end-effector joint
\* and any two finger joints.
KinRobots ==
    {Robot(parent, ee, fingers[1], fingers[2], TRUE, <<>>) :
        parent \in JointGraphs, ee \in Joints,
        fingers \in {f \in Joints \X Joints : f[1] # f[2]}}
    \cup {ScenarioRobot}

\* Arm-only candidates with pairwise different entries: 0.1, 0.2, ... and a
\* descending one.
KinCandidates ==
    {[i \in 1..(Len(arm_joints) - 2) |-> i * 100000],
     [i \in 1..(Len(arm_joints) - 2) |-> (Len(arm_joints) - i) * 100000 + 7]}

KinSolutions == SeqsUpTo(KinCandidates, MaxSolutions)

\* A body just loaded: no property of the robot object has been read yet.
InitKin ==
    /\ robot \in KinRobots
    /\ control_mode = "position"
    /\ _home_joint_positions = <<>>
    /\ arm_joints_cache = <<>>
    /\ jointPos = [j \in DOMAIN robot.parent |-> 0]
    /\ jointVel = [j \in DOMAIN robot.parent |-> 0]
    /\ trace = <<>>
    /\ lastCall = Call("loadURDF", <<>>, NoPose, FALSE, FALSE, 0,
                       Res(<<>>, "none", "", <<>>), <<>>, NoPose)

\* Reading the property arm_joints.
AccessArmJoints ==
    LET r == Res(Engine, "none", "", <<>>)
    IN  Commit(r, Call("arm_joints", <<>>, NoPose, FALSE, FALSE, 0, r,
                       arm_joints, NoPose))

CallIkfastInverseKinematics ==
    \E ik_solutions \in KinSolutions :
        LET r == _ikfast_inverse_kinematics(Engine, ik_solutions)
        IN  Commit(r, Call("_ikfast_inverse_kinematics",
                           IF ik_solutions = <<>> THEN <<>> ELSE ik_solutions[1],
                           NoPose, FALSE, FALSE, 0, r, r.ret, NoPose))

NextKin ==
    \/ AccessArmJoints
    \/ CallIkfastInverseKinematics

SpecKin == InitKin /\ [][NextKin]_vars

(***************************************************************************)
(* Properties                                                              *)
(***************************************************************************)
Calls(tr, name) == SelectSeq(tr, LAMBDA ev : ev.call = name)

\* The engine commands of a trace: joint-state writes and motor commands.
EngineCommands(tr) ==
    SelectSeq(tr, LAMBDA ev : ev.call \in {"resetJointState", "setJointMotorControlArray"})

NoEngineCommand(tr) == EngineCommands(tr) = <<>>

\* The result of get_joints() in the current state.
CurrentJoints == get_joints(Engine)

IsIK == lastCall.op = "inverse_kinematics"

ValidationFailed ==
    /\ lastCall.err = "InverseKinematicsError"
    /\ lastCall.msg = "Joint states do not match target pose"

\* The vector the analytic path built from the solver's first candidate.
Candidate ==
    insert(insert(lastCall.arg, Len(lastCall.arg), OpenFingers),
           Len(lastCall.arg) + 1, OpenFingers)

\* C1: on an analytic robot, inverse_kinematics(pose, validate=true,
\* set_joints=false) leaves get_joints() as it was before the call, whether
\* it returns or fails validation; and a validation failure with
\* set_joints=true leaves get_joints() as it was too.
C1_ValidatePreservesJoints ==
    [][(/\ lastCall'.op = "inverse_kinematics"
        /\ robot.ikfast_info
        /\ lastCall'.validate
        /\ \/ ~lastCall'.set_joints
           \/ ValidationFailed')
       => CurrentJoints' = CurrentJoints]_vars

\* A validation failure with set_joints=true whose candidate differs from the
\* joints the robot is at, which are not the home joints.
C1_Witness ==
    /\ IsIK /\ robot.ikfast_info /\ lastCall.validate /\ lastCall.set_joints
    /\ ValidationFailed
    /\ lastCall.arg # <<>>
    /\ Candidate # CurrentJoints
    /\ CurrentJoints # home_joint_positions

\* The end-effector pose forward_kinematics(v) returns.
FKPose(v) == forward_kinematics(Engine, v).ret

\* C2: on an analytic robot, inverse_kinematics(pose, validate=true,
\* set_joints=true) either raises InverseKinematicsError or returns v with
\* forward_kinematics(v).position within validation_atol of pose.position on
\* every axis, and then get_joints() equals v.
C2_ReturnWithinAtol ==
    (IsIK /\ robot.ikfast_info /\ lastCall.validate /\ lastCall.set_joints)
    => \/ lastCall.err = "InverseKinematicsError"
       \/ /\ lastCall.err = "none"
          /\ \A i \in 1..3 :
                Abs(FKPose(lastCall.ret).position[i] - lastCall.target.position[i])
                    <= lastCall.atol
          /\ CurrentJoints = lastCall.ret

\* C3: with validate=true the returned joint positions, run through
\* forward_kinematics, give end_effector_pose: its position (to the
\* validation's closeness) and its orientation.
C3_ValidatedResultGivesPose ==
    (IsIK /\ robot.ikfast_info /\ lastCall.validate /\ lastCall.err = "none")
    => /\ allclose(FKPose(lastCall.ret).position, lastCall.target.position,
                   lastCall.atol)
       /\ FKPose(lastCall.ret).orientation = lastCall.target.orientation

\* C4: go_home() is set_motors(h) for the instance's home vector h (the one
\* given at construction, else the type's default): same engine commands,
\* same outcome.
C4_GoHomeIsSetMotorsHome ==
    lastCall.op = "go_home"
    => /\ trace = set_motors(Engine, home_joint_positions).e.tr
       /\ lastCall.err = set_motors(Engine, home_joint_positions).err

\* C5: set_motors(v) with len(v) = len(arm_joints): in position mode exactly
\* one batched position command over all chain joints with targets v and no
\* joint-state write; in reset mode the engine effect of set_joints(v); in
\* any other mode an unsupported-mode error and no engine command.
C5_SetMotorsDispatch ==
    (lastCall.op = "set_motors" /\ Len(lastCall.arg) = Len(arm_joints))
    => CASE control_mode = "position" ->
              /\ lastCall.err = "none"
              /\ EngineCommands(trace) =
                    <<Ev("setJointMotorControlArray", arm_joints, lastCall.arg, FALSE)>>
              /\ Calls(trace, "set_joints") = <<>>
         [] control_mode = "reset" ->
              /\ lastCall.err = "none"
              /\ EngineCommands(trace) =
                    [i \in 1..Len(arm_joints) |->
                        Ev("resetJointState", <<arm_joints[i]>>, <<lastCall.arg[i]>>, FALSE)]
              /\ trace = set_joints(Engine, lastCall.arg).e.tr
              /\ CurrentJoints = lastCall.arg
              /\ \A i \in 1..Len(arm_joints) : jointVel[arm_joints[i]] = 0
         [] OTHER ->
              /\ lastCall.err = "NotImplementedError"
              /\ NoEngineCommand(trace)

\* set_motors in position mode, towards joints the robot is not at, while
\* the joints are moving.
C5_Witness ==
    /\ lastCall.op = "set_motors" /\ Len(lastCall.arg) = Len(arm_joints)
    /\ control_mode = "position"
    /\ lastCall.err = "none"
    /\ \A i \in 1..Len(arm_joints) : lastCall.arg[i] # CurrentJoints[i]
    /\ \E j \in DOMAIN jointVel : jointVel[j] # 0

\* C6: set_joints(v) and set_motors(v) with len(v) # len(arm_joints) fail
\* before any engine write: no joint position or velocity changes and no
\* motor command is issued.
C6_LengthMismatchWritesNothing ==
    [][(/\ lastCall'.op \in {"set_joints", "set_motors"}
        /\ Len(lastCall'.arg) # Len(arm_joints))
       => /\ lastCall'.err = "AssertionError"
          /\ jointPos' = jointPos
          /\ jointVel' = jointVel
          /\ NoEngineCommand(trace')]_vars

\* set_joints with a vector one entry short, every entry of which differs
\* from the joint it would be written to, while the joints are moving.
C6_Witness ==
    /\ lastCall.op = "set_joints"
    /\ Len(lastCall.arg) = Len(arm_joints) - 1
    /\ lastCall.err = "AssertionError"
    /\ \A i \in 1..Len(lastCall.arg) : lastCall.arg[i] # CurrentJoints[i]
    /\ \A j \in DOMAIN jointVel : jointVel[j] # 0

RECURSIVE NthParent(_, _, _)
NthParent(parent, joint, k) ==
    IF k = 0 \/ joint = BASE_LINK THEN joint
    ELSE NthParent(parent, parent[joint], k - 1)

\* The joints on the path from the end-effector joint to the base.
PathJoints ==
    {j \in DOMAIN robot.parent :
        \E k \in 0..Cardinality(DOMAIN robot.parent) :
            NthParent(robot.parent, robot.end_effector_id, k) = j}

FingersOffPath ==
    /\ robot.left_finger_id \notin PathJoints
    /\ robot.right_finger_id \notin PathJoints

\* The chain is the ascending path joints followed by <<left, right>>.
SortedPathThenFingers(chain) ==
    LET n == Len(chain)
        prefix == SubSeq(chain, 1, n - 2)
    IN  /\ n >= 3
        /\ Range(prefix) = PathJoints
        /\ \A i \in 1..(n - 3) : prefix[i] < prefix[i + 1]
        /\ chain[n - 1] = robot.left_finger_id
        /\ chain[n] = robot.right_finger_id

\* Non-finger joints plus 2, fingers absent from the prefix, finger slots last.
FingersOnlyAtTail(chain) ==
    LET n == Len(chain)
        prefix == SubSeq(chain, 1, n - 2)
    IN  /\ n = Cardinality(PathJoints \ {robot.left_finger_id, robot.right_finger_id}) + 2
        /\ robot.left_finger_id \notin Range(prefix)
        /\ robot.right_finger_id \notin Range(prefix)
        /\ left_finger_joint_idx = n - 2
        /\ right_finger_joint_idx = n - 1

\* C7 as stated: for every connected joint graph and every end-effector and
\* finger joints, arm_joints is the ascending path from the end effector to
\* the base followed by <<left, right>>; its length is the non-finger arm
\* joints plus 2, no finger is in the sorted prefix, and the finger slots are
\* the last two positions.
C7_ArmChainShape ==
    arm_joints_cache # <<>>
    => /\ SortedPathThenFingers(arm_joints_cache)
       /\ FingersOnlyAtTail(arm_joints_cache)

\* C7 amended: arm_joints is always the ascending path followed by
\* <<left, right>>, of length path + 2; the count of non-finger joints, the
\* fingers' absence from the prefix and the tail slots hold when neither
\* finger joint lies on the path from the end effector to the base.  The
\* scenario's body gives <<2, 4, 6, 9, 10, 11, 12>>.
C7_ArmChainShapeOffPath ==
    arm_joints_cache # <<>>
    => /\ SortedPathThenFingers(arm_joints_cache)
       /\ Len(arm_joints_cache) = Cardinality(PathJoints) + 2
       /\ FingersOffPath => FingersOnlyAtTail(arm_joints_cache)
       /\ robot = ScenarioRobot => arm_joints_cache = <<2, 4, 6, 9, 10, 11, 12>>

\* A chain over a path of at least two joints with both fingers off it, the
\* fingers numbered below a path joint and the left one above the right one.
C7_Witness ==
    /\ arm_joints_cache # <<>>
    /\ FingersOffPath
    /\ Cardinality(PathJoints) >= 2
    /\ robot.right_finger_id < robot.left_finger_id
    /\ \E j \in PathJoints : robot.left_finger_id < j

\* The entries of v outside the positions in skip, in order.
RECURSIVE Others(_, _, _)
Others(v, skip, i) ==
    IF i > Len(v) THEN <<>>
    ELSE (IF i \in skip THEN <<>> ELSE <<v[i]>>) \o Others(v, skip, i + 1)

\* C8: with leftFingerSlot < rightFingerSlot and an arm-only solution s of
\* length len(arm_joints) - 2, the analytic path returns a vector of length
\* len(arm_joints) with the open-finger value at the two finger slots and the
\* entries of s, in order, elsewhere; chain <<2,4,6,9,10,11,12>> with
\* s = <<0.1,0.2,0.3,0.4,0.5>> and open = 0.04 gives
\* <<0.1,0.2,0.3,0.4,0.5,0.04,0.04>>.
C8_FingerInsertion ==
    (/\ lastCall.op = "_ikfast_inverse_kinematics"
     /\ lastCall.arg # <<>>
     /\ left_finger_joint_idx < right_finger_joint_idx)
    => /\ lastCall.err = "none"
       /\ Len(lastCall.ret) = Len(arm_joints)
       /\ lastCall.ret[left_finger_joint_idx + 1] = robot.open_fingers
       /\ lastCall.ret[right_finger_joint_idx + 1] = robot.open_fingers
       /\ Others(lastCall.ret,
                 {left_finger_joint_idx + 1, right_finger_joint_idx + 1}, 1)
            = lastCall.arg
       /\ (/\ arm_joints = <<2, 4, 6, 9, 10, 11, 12>>
           /\ lastCall.arg = <<100000, 200000, 300000, 400000, 500000>>)
          => lastCall.ret = <<100000, 200000, 300000, 400000, 500000, 40000, 40000>>

\* An insertion into a solution of at least two entries on a chain whose
\* finger joints are numbered below an arm joint.
C8_Witness ==
    /\ lastCall.op = "_ikfast_inverse_kinematics"
    /\ lastCall.err = "none"
    /\ Len(lastCall.arg) >= 2
    /\ left_finger_joint_idx < right_finger_joint_idx
    /\ FingersOffPath
    /\ \E j \in PathJoints : robot.left_finger_id < j /\ robot.right_finger_id < j

\* C9 as stated: zero candidates make inverse_kinematics fail with
\* NoIKSolutionError, a kind other than the InverseKinematicsError of a
\* validation mismatch, with no engine state mutated.
C9_NoSolutionDistinctError ==
    (IsIK /\ robot.ikfast_info /\ lastCall.arg = <<>>)
    => /\ lastCall.err = "NoIKSolutionError"
       /\ lastCall.err # "InverseKinematicsError"
       /\ NoEngineCommand(trace)
       /\ Calls(trace, "set_joints") = <<>>

\* C9 amended: zero candidates make inverse_kinematics fail with
\* InverseKinematicsError, the kind a validation mismatch raises too (the
\* messages differ), with no engine state mutated and no set_joints, whatever
\* validate and set_joints are.
C9_NoSolutionFailsUnchanged ==
    [][(/\ lastCall'.op = "inverse_kinematics"
        /\ robot.ikfast_info
        /\ lastCall'.arg = <<>>)
       => /\ lastCall'.err = "InverseKinematicsError"
          /\ lastCall'.msg = "No IK solution found"
          /\ lastCall'.msg # "Joint states do not match target pose"
          /\ jointPos' = jointPos
          /\ jointVel' = jointVel
          /\ NoEngineCommand(trace')
          /\ Calls(trace', "set_joints") = <<>>]_vars

\* Zero candidates with validate and set_joints both true, while the joints
\* are moving.
C9_Witness ==
    /\ IsIK /\ robot.ikfast_info /\ lastCall.arg = <<>>
    /\ lastCall.validate /\ lastCall.set_joints
    /\ lastCall.err = "InverseKinematicsError"
    /\ \A j \in DOMAIN jointVel : jointVel[j] # 0

\* C10: inverse_kinematics dispatches on ikfast_info() alone.  With a profile
\* only the analytic solver is called; without one only the generic solver,
\* once, with the whole arm chain (both fingers included) and the caller's
\* validate flag, and then no finger is inserted and nothing is validated by
\* save/set/restore.  On both paths set_joints(result) is called exactly when
\* set_joints is true and the call did not fail.
C10_Dispatch ==
    IsIK
    => LET applied == lastCall.set_joints /\ lastCall.err = "none"
           sets == Calls(trace, "set_joints")
           validations == Calls(trace, "_validate_joints_state")
       IN  /\ IF robot.ikfast_info
              THEN /\ Len(Calls(trace, "ikfast_closest_inverse_kinematics")) = 1
                   /\ Calls(trace, "pybullet_inverse_kinematics") = <<>>
                   /\ Len(sets) = 2 * Len(validations) + (IF applied THEN 1 ELSE 0)
              ELSE /\ Calls(trace, "ikfast_closest_inverse_kinematics") = <<>>
                   /\ Calls(trace, "pybullet_inverse_kinematics")
                        = <<Ev("pybullet_inverse_kinematics", arm_joints, <<>>,
                               lastCall.validate)>>
                   /\ {robot.left_finger_id, robot.right_finger_id}
                        \subseteq Range(arm_joints)
                   /\ Calls(trace, "insert") = <<>>
                   /\ validations = <<>>
                   /\ Len(sets) = (IF applied THEN 1 ELSE 0)
           /\ applied => /\ trace[Len(trace) - Len(arm_joints)]
                              = Ev("set_joints", <<>>, lastCall.ret, FALSE)
                         /\ CurrentJoints = lastCall.ret

\* A generic-path call with validate and set_joints true that returned a
\* vector other than the home joints.
C10_Witness ==
    /\ IsIK /\ ~robot.ikfast_info
    /\ lastCall.validate /\ lastCall.set_joints
    /\ lastCall.err = "none"
    /\ lastCall.ret # home_joint_positions

\* The call reached validation: _validate_joints_state was entered.
ReachedValidation(tr) == Calls(tr, "_validate_joints_state") # <<>>

\* C11: the validation save/restore restores joint positions only, not
\* velocities.  After an analytic-path inverse_kinematics call with
\* validate=true that reaches validation, whether it returns or raises
\* InverseKinematicsError and whatever set_joints is, every joint of the arm
\* chain has velocity zero, whatever its velocity was before the call; when
\* the call does not apply its result the positions are the ones before the
\* call.  With validate=false and set_joints=false the call performs no engine
\* write: positions and velocities are unchanged.
C11_ValidationZeroesVelocities ==
    [][(/\ lastCall'.op = "inverse_kinematics"
        /\ robot.ikfast_info)
       => /\ (/\ lastCall'.validate
               /\ ReachedValidation(trace')
               /\ lastCall'.err \in {"none", "InverseKinematicsError"})
              => /\ \A i \in 1..Len(arm_joints) : jointVel'[arm_joints[i]] = 0
                 /\ (~lastCall'.set_joints \/ lastCall'.err # "none")
                      => CurrentJoints' = CurrentJoints
          /\ (~lastCall'.validate /\ ~lastCall'.set_joints)
              => /\ jointPos' = jointPos
                 /\ jointVel' = jointVel
                 /\ NoEngineCommand(trace')]_vars

\* A validated call with set_joints=false that returned, made while every
\* joint was moving: the joints are where they were, not at the candidate,
\* and at rest.
C11_Witness ==
    /\ IsIK /\ robot.ikfast_info /\ lastCall.validate /\ ~lastCall.set_joints
    /\ lastCall.err = "none"
    /\ ReachedValidation(trace)
    /\ \A j \in DOMAIN jointVel : lastCall.vel_before[j] # 0
    /\ \A i \in 1..Len(arm_joints) : jointVel[arm_joints[i]] = 0
    /\ Candidate # CurrentJoints

\* An analytic call with validate=false and set_joints=false that returned a
\* vector, made while every joint was moving: the joints still move.
C11_NoWriteWitness ==
    /\ IsIK /\ robot.ikfast_info /\ ~lastCall.validate /\ ~lastCall.set_joints
    /\ lastCall.err = "none"
    /\ lastCall.ret # CurrentJoints
    /\ \A j \in DOMAIN jointVel : lastCall.vel_before[j] # 0 /\ jointVel[j] # 0

====
